---- MODULE Spec2Model ----
(***************************************************************************)
(* Model of the resumable, checkpointed, time-bounded index build of       *)
(* packages/rag/vector_store.py (create_vector_store, cleanup_checkpoints) *)
(* run as a sequence of process invocations over one file system, and of    *)
(* the bounded-time query of packages/rag/retrieval_chain.py                *)
(* (query_retrieval_chain), run as concurrent calls with their workers,     *)
(* each followed by the summary step of autonomous_research                 *)
(* (packages/agent/agent_autonomous.py).                                    *)
(*                                                                         *)
(* Conventions                                                             *)
(*   - Python None / an empty path is the empty tuple <<>>; an optional    *)
(*     integer n is <<n>>; a FAISS index holding the documents s is <<s>>. *)
(*   - a path is the tuple of its components, <<"data", "vs1">>.           *)
(*   - a string is [src, len, marker]: the first len characters of the     *)
(*     text src, followed by "... [truncated]" when marker is TRUE.        *)
(*   - time is counted in ticks of 0.1 s since the process started.        *)
(*   - FAISS.from_documents / add_documents either insert the whole batch  *)
(*     or raise and leave the index as it was.                             *)
(*   - the parent directory of every destination exists.                   *)
(*   - the time of the query executor is counted in seconds; join returns  *)
(*     no later than its timeout, and the worker ends in one step.         *)
(***************************************************************************)
EXTENDS Integers, Sequences, FiniteSets, TLC

\* ------------------------------------------------------------------ bounds
\* number of documents of the large inputs
NDocs == 120
\* number of process invocations (builds and clean-ups) in one behaviour
MaxRuns == 2

\* --------------------------------------------------------- program constants
max_chars == 2000
batch_size == 50
MarkerLen == 15
TicksPerSecond == 10
SleepTicks == 1
SecondsPerMinute == 60

VARIABLES
    fs, dirs,            \* files (path -> content) and directories on disk
    pc,                  \* position of the running invocation
    input,               \* name of the document sequence passed as docs
    persist_path, timeout_minutes, max_docs,
    truncated_docs, vector_store, processed_count, i,
    clock, start_time, timeout_seconds, checkpoint_file,
    error, result,
    runs,                \* invocations started so far
    hist,                \* observations of the running invocation
    query,               \* the calls of query_retrieval_chain
    now,                 \* the time of the query executor, in seconds
    research,            \* what autonomous_research does with each outcome
    pre,                 \* a run of the preprocessing over a caller's list
    collect              \* autonomous_research collecting its documents
vars == <<fs, dirs, pc, input, persist_path, timeout_minutes, max_docs,
          truncated_docs, vector_store, processed_count, i, clock, start_time,
          timeout_seconds, checkpoint_file, error, result, runs, hist,
          query, now, research, pre, collect>>

\* the variables of the index build and those of the query executor
buildvars == <<fs, dirs, pc, input, persist_path, timeout_minutes, max_docs,
               truncated_docs, vector_store, processed_count, i, clock,
               start_time, timeout_seconds, checkpoint_file, error, result,
               runs, hist>>
qvars == <<query, now, research>>
pvars == <<pre, collect>>

locals == <<input, persist_path, timeout_minutes, max_docs,
            truncated_docs, start_time, timeout_seconds, checkpoint_file>>

None == <<>>

Min(a, b) == IF a < b THEN a ELSE b

\* ---------------------------------------------------------------- documents
\* length of the text of input document k: over, at and under max_chars
ContentLen(k) ==
    IF k % 3 = 0 THEN max_chars + 1
    ELSE IF k % 3 = 1 THEN max_chars
    ELSE 0

Doc(k) ==
    [page_content |-> [src |-> k, len |-> ContentLen(k), marker |-> FALSE],
     metadata |-> {<<"title", k>>}]

StrLen(s) == s.len + (IF s.marker THEN MarkerLen ELSE 0)

\* (faulty variant: the marker is appended to the whole text)
SliceAndMark_NoSlice(s, n) == [src |-> s.src, len |-> s.len, marker |-> TRUE]

\* s[:n] + "... [truncated]"
SliceAndMark(s, n) == [src |-> s.src, len |-> Min(s.len, n), marker |-> TRUE]

\* {**metadata, key: value}
MetaSet(metadata, key, value) ==
    {kv \in metadata : kv[1] # key} \cup {<<key, value>>}

\* (faulty variant: every document is passed through as it is)
Truncate_Identity(doc) == doc

\* the body of the truncation loop for one document
Truncate(doc) ==
    IF StrLen(doc.page_content) > max_chars
    THEN [page_content |-> SliceAndMark(doc.page_content, max_chars),
          metadata |-> MetaSet(MetaSet(doc.metadata, "truncated", 1),
                               "original_length", StrLen(doc.page_content))]
    ELSE doc

Preprocess(ds) == [k \in 1..Len(ds) |-> Truncate(ds[k])]

\* Python truthiness of an optional integer
Truthy(opt) == opt # None /\ opt[1] # 0

LimitDocs(ds, md) ==
    IF Truthy(md) /\ Len(ds) > md[1] THEN SubSeq(ds, 1, md[1]) ELSE ds

\* truncated_docs[i:i + batch_size]
Batch(tds, k) == SubSeq(tds, k + 1, Min(k + batch_size, Len(tds)))

FromDocuments(batch) == <<batch>>
AddDocuments(vs, batch) == <<vs[1] \o batch>>

\* the inputs a caller passes
Reverse(s) == [k \in 1..Len(s) |-> s[Len(s) + 1 - k]]
Input(name) ==
    CASE name = "A" -> [k \in 1..NDocs |-> Doc(k)]
      [] name = "B" -> Reverse([k \in 1..NDocs |-> Doc(k)])
      [] OTHER -> <<>>
TimeoutChoices == {1}

\* -------------------------------------------------------------- file system
Destinations == {<<"data", "vs1">>, <<"data", "vs2">>}
PathChoices == Destinations \cup {None}

\* the calls made: <<documents, persist_path, max_docs>>
Calls ==
    ({"A"} \X PathChoices \X {None})
    \cup ({"B"} \X {<<"data", "vs1">>} \X {None})
    \cup ({"E"} \X {<<"data", "vs1">>, None} \X {None})

\* calls with max_docs: unset, zero, and a limit below the number of documents
LimitCalls ==
    ({"A"} \X {<<"data", "vs1">>} \X {None, <<0>>, <<2 * batch_size>>})
    \cup ({"A"} \X {None} \X {<<0>>, <<2 * batch_size>>})
    \cup ({"E"} \X {<<"data", "vs1">>} \X {<<2 * batch_size>>})

Parent(p) == SubSeq(p, 1, Len(p) - 1)
CheckpointDir(p) == Parent(p) \o <<"checkpoints">>
\* (faulty variant: the checkpoint file name alternates from one invocation to the next)
CheckpointFile_PerRun(p) ==
    CheckpointDir(p) \o << IF runs % 2 = 0 THEN "vector_store_checkpoint.pkl"
                                           ELSE "vector_store_checkpoint.pkl.1" >>
CheckpointFile(p) == CheckpointDir(p) \o <<"vector_store_checkpoint.pkl">>

Exists(files, p) == p \in DOMAIN files
WriteFile(files, p, c) ==
    [q \in (DOMAIN files) \cup {p} |-> IF q = p THEN c ELSE files[q]]
Unlink(files, p) == [q \in (DOMAIN files) \ {p} |-> files[q]]
FilesIn(files, d) == {q \in DOMAIN files : Parent(q) = d}

\* a file opened for writing and not completely written
Partial == [kind |-> "partial"]
IsCheckpoint(c) == c.kind = "ckpt"
\* the build that wrote a checkpoint file, as far as it got
Writer(c) ==
    IF IsCheckpoint(c)
    THEN [input |-> c.w_input, path |-> c.w_path]
    ELSE [input |-> "", path |-> None]

Ended == pc \in {"idle", "returned", "raised", "crashed"}

\* ------------------------------------------- query_retrieval_chain: values
\* thread.join(timeout=60)
QueryTimeout == 60

\* the calls of query_retrieval_chain, numbered in the order they are made
QueryCalls == {1, 2}

\* what chain.invoke can return, and what it can raise
Answers ==
    {[result |-> <<"answer">>, source_documents |-> <<"doc">>],
     [result |-> <<"no answer">>, source_documents |-> <<>>]}
Errors ==
    {[type |-> "ValueError", args |-> <<"boom">>],
     [type |-> "RuntimeError", args |-> <<>>]}

\* the time chain.invoke takes: less than, exactly, and more than the timeout
WorkerTimes ==
    {QueryTimeout \div 2, QueryTimeout, QueryTimeout + QueryTimeout \div 2}

\* the behaviours of chain.invoke({"query": query})
Chains ==
    [kind : {"returns"}, value : {<<a>> : a \in Answers}, error : {None},
     after : WorkerTimes]
    \cup [kind : {"raises"}, value : {None}, error : {<<e>> : e \in Errors},
          after : WorkerTimes]
    \cup [kind : {"hangs"}, value : {None}, error : {None}, after : {0}]

\* a call that has not been made
NoQuery ==
    [pc |-> "idle",
     chain |-> [kind |-> "hangs", value |-> None, error |-> None, after |-> 0],
     thread |-> "none",     \* none, running, finished
     result |-> None,       \* the nonlocal result: <<value>> once assigned
     error |-> None,        \* the nonlocal error: <<exception>> once assigned
     start |-> 0,           \* the time of thread.start()
     outcome |-> None,      \* <<value>> returned to the caller
     end |-> 0,             \* the time of the return
     expired |-> FALSE,     \* join returned with the thread still running
     alive |-> FALSE]       \* the thread was running when is_alive was called

\* autonomous_research waiting for the outcome of its query
NoResearch == [pc |-> "query", all_text |-> <<>>, value |-> None]

\* autonomous_research has not been called
NoCollect == [pc |-> "idle", papers |-> <<>>, max_docs_to_process |-> 0,
              docs |-> <<>>, p |-> 1, handed |-> None, value |-> None]

\* no preprocessing has been called
NoPre == [pc |-> "idle", heap |-> <<>>, given |-> <<>>, max_docs |-> None,
          docs |-> <<>>, truncated_docs |-> <<>>, k |-> 1, run |-> 0,
          first |-> <<>>]

NoHist ==
    [found |-> None,        \* <<writer>> of the checkpoint file found at line 80
     resumed |-> FALSE,     \* the load succeeded
     saved_count |-> 0,     \* processed_count of the last completed save
     inserts |-> 0,         \* batch insertions started
     wrote_final |-> FALSE, \* save_local wrote to persist_path
     crashed_at |-> "",     \* pc at which the process was killed
     crash_count |-> 0,     \* processed_count when it was killed
     before_save |-> None,  \* <<content>> the checkpoint file had when the
                            \* unfinished save opened it, <<>> if it was absent
     prev |-> None]         \* <<summary>> of the invocation before this one

Init ==
    /\ fs = <<>>
    /\ dirs = {Parent(p) : p \in Destinations}
    /\ pc = "idle"
    /\ input = "E"
    /\ persist_path = None
    /\ timeout_minutes = 1
    /\ max_docs = None
    /\ truncated_docs = <<>>
    /\ vector_store = None
    /\ processed_count = 0
    /\ i = 0
    /\ clock = 0
    /\ start_time = 0
    /\ timeout_seconds = 0
    /\ checkpoint_file = None
    /\ error = ""
    /\ result = None
    /\ runs = 0
    /\ hist = NoHist
    /\ query = [c \in QueryCalls |-> NoQuery]
    /\ now = 0
    /\ research = [c \in QueryCalls |-> NoResearch]
    /\ pre = NoPre
    /\ collect = NoCollect


\* ------------------------------------------------------ create_vector_store
\* (faulty variant: the minutes are converted as if they were hours)
TimeoutSeconds_Hours(tm) == tm * SecondsPerMinute * SecondsPerMinute

\* timeout_seconds = timeout_minutes * 60
TimeoutSeconds(tm) == tm * SecondsPerMinute

\* (faulty variant: the deadline is converted to seconds twice)
TimedOut_Minutes(elapsed, ts) == elapsed > ts * SecondsPerMinute * TicksPerSecond

\* elapsed_time > timeout_seconds, the elapsed time given in ticks
TimedOut(elapsed, ts) == elapsed > ts * TicksPerSecond

\* the durations one batch insertion can take: with the sleep after each
\* batch, two batches end just before, at, or just after the one-minute deadline
BatchTicks ==
    {(TimeoutSeconds(1) * TicksPerSecond) \div 2 - SleepTicks,
     (TimeoutSeconds(1) * TicksPerSecond) \div 2}

\* what the invocation that has ended leaves for the next one to know
\* (kept only for a build that met no checkpoint file, saved at least one
\* checkpoint and was then stopped by a kill, the deadline or a failing batch)
Interrupted ==
    \/ pc = "crashed"
    \/ pc = "raised" /\ error \in {"TimeoutError", "BatchError"}
Summary ==
    IF Interrupted /\ hist.saved_count > 0 /\ hist.found = None
    THEN <<[input |-> input, max_docs |-> max_docs, persist_path |-> persist_path]>>
    ELSE None

\* lines 26-77: the call, up to the checkpoint file name
CreateVectorStore(name, path, tm, md) ==
    /\ Ended
    /\ runs < MaxRuns
    /\ runs' = runs + 1
    /\ input' = name
    /\ persist_path' = path
    /\ timeout_minutes' = tm
    /\ max_docs' = md
    /\ truncated_docs' = Preprocess(LimitDocs(Input(name), md))
    /\ vector_store' = None
    /\ clock' = 0
    /\ start_time' = 0
    /\ timeout_seconds' = TimeoutSeconds(tm)
    /\ checkpoint_file' = IF path # None THEN CheckpointFile(path) ELSE None
    /\ dirs' = IF path # None THEN dirs \cup {CheckpointDir(path)} ELSE dirs
    /\ processed_count' = 0
    /\ i' = 0
    /\ error' = ""
    /\ result' = None
    /\ hist' = [NoHist EXCEPT !.prev = Summary]
    /\ pc' = "load"
    /\ UNCHANGED fs
    /\ UNCHANGED <<qvars, pvars>>

\* lines 79-87, 92-93: no checkpoint file, or one that unpickles
LoadCheckpoint ==
    /\ pc = "load"
    /\ IF checkpoint_file # None /\ Exists(fs, checkpoint_file)
       THEN /\ IsCheckpoint(fs[checkpoint_file])
            /\ vector_store' = fs[checkpoint_file].vector_store
            /\ processed_count' = fs[checkpoint_file].processed_count
            /\ hist' = [hist EXCEPT !.found = <<Writer(fs[checkpoint_file])>>,
                                    !.resumed = TRUE]
       ELSE /\ processed_count' = 0
            /\ UNCHANGED <<vector_store, hist>>
    /\ i' = processed_count'
    /\ pc' = "loop"
    /\ UNCHANGED <<fs, dirs, locals, clock, error, result, runs>>
    /\ UNCHANGED <<qvars, pvars>>

\* (faulty variant: the exception of the load is not caught)
LoadCheckpointFails_Raises ==
    /\ pc = "load"
    /\ checkpoint_file # None
    /\ Exists(fs, checkpoint_file)
    /\ error' = "UnpicklingError"
    /\ hist' = [hist EXCEPT !.found = <<Writer(fs[checkpoint_file])>>]
    /\ pc' = "raised"
    /\ UNCHANGED <<fs, dirs, locals, vector_store, processed_count, i, clock,
                   result, runs>>
    /\ UNCHANGED <<qvars, pvars>>

\* lines 80-84, 88-91: the file exists and open or pickle.load raises
LoadCheckpointFails ==
    /\ pc = "load"
    /\ checkpoint_file # None
    /\ Exists(fs, checkpoint_file)
    /\ vector_store' = None
    /\ processed_count' = 0
    /\ i' = 0
    /\ hist' = [hist EXCEPT !.found = <<Writer(fs[checkpoint_file])>>]
    /\ pc' = "loop"
    /\ UNCHANGED <<fs, dirs, locals, clock, error, result, runs>>
    /\ UNCHANGED <<qvars, pvars>>

\* for i in range(processed_count, len(truncated_docs), batch_size)
\* (faulty variant: the range never ends)
RangeHasNext_Always(k, stop) == TRUE

RangeHasNext(k, stop) == k < stop

\* (faulty variant: the timeout removes the checkpoint)
LoopTimeout_Cleans ==
    /\ pc = "loop"
    /\ RangeHasNext(i, Len(truncated_docs))
    /\ TimedOut(clock - start_time, timeout_seconds)
    /\ error' = "TimeoutError"
    /\ pc' = "raised"
    /\ fs' = IF checkpoint_file # None /\ Exists(fs, checkpoint_file)
             THEN Unlink(fs, checkpoint_file) ELSE fs
    /\ UNCHANGED <<dirs, locals, vector_store, processed_count, i, clock,
                   result, runs, hist>>
    /\ UNCHANGED <<qvars, pvars>>

\* lines 98-102: the deadline has passed before the next batch
LoopTimeout ==
    /\ pc = "loop"
    /\ RangeHasNext(i, Len(truncated_docs))
    /\ TimedOut(clock - start_time, timeout_seconds)
    /\ error' = "TimeoutError"
    /\ pc' = "raised"
    /\ UNCHANGED <<fs, dirs, locals, vector_store, processed_count, i, clock,
                   result, runs, hist>>
    /\ UNCHANGED <<qvars, pvars>>

\* lines 98-108: the next batch is started
LoopNext ==
    /\ pc = "loop"
    /\ RangeHasNext(i, Len(truncated_docs))
    /\ ~TimedOut(clock - start_time, timeout_seconds)
    /\ hist' = [hist EXCEPT !.inserts = @ + 1]
    /\ pc' = "insert"
    /\ UNCHANGED <<fs, dirs, locals, vector_store, processed_count, i, clock,
                   error, result, runs>>
    /\ UNCHANGED <<qvars, pvars>>

\* (faulty variant: the deadline is also tested when the loop ends)
LoopEnd_ChecksDeadline ==
    /\ pc = "loop"
    /\ ~RangeHasNext(i, Len(truncated_docs))
    /\ IF TimedOut(clock - start_time, timeout_seconds)
       THEN error' = "TimeoutError" /\ pc' = "raised"
       ELSE error' = error /\ pc' = "finish"
    /\ UNCHANGED <<fs, dirs, locals, vector_store, processed_count, i, clock,
                   result, runs, hist>>
    /\ UNCHANGED <<qvars, pvars>>

\* line 98, 158-159: the range is exhausted
LoopEnd ==
    /\ pc = "loop"
    /\ ~RangeHasNext(i, Len(truncated_docs))
    /\ pc' = "finish"
    /\ UNCHANGED <<fs, dirs, locals, vector_store, processed_count, i, clock,
                   error, result, runs, hist>>
    /\ UNCHANGED <<qvars, pvars>>

\* (faulty variant: every batch builds a new index)
Insert_AlwaysNew(vs, batch) == FromDocuments(batch)

\* lines 111-116
Insert(vs, batch) ==
    IF vs = None THEN FromDocuments(batch) ELSE AddDocuments(vs, batch)

\* (faulty variant: the batch just inserted is not counted)
Committed_NotCounted(k, batch) == k

\* line 119
Committed(k, batch) == k + Len(batch)

\* (faulty variant: the loop does not move to the next offset)
NextIteration_Repeats ==
    /\ clock' = clock + SleepTicks
    /\ i' = i
    /\ pc' = "loop"

\* lines 135-139 and the next value of the range
NextIteration ==
    /\ clock' = clock + SleepTicks
    /\ i' = i + batch_size
    /\ pc' = "loop"

\* lines 104-120: the batch is inserted and counted
InsertBatch(d) ==
    /\ pc = "insert"
    /\ vector_store' = Insert(vector_store, Batch(truncated_docs, i))
    /\ processed_count' = Committed(i, Batch(truncated_docs, i))
    /\ IF checkpoint_file # None
       THEN /\ clock' = clock + d
            /\ pc' = "save_open"
            /\ UNCHANGED i
       ELSE /\ clock' = clock + d + SleepTicks
            /\ i' = i + batch_size
            /\ pc' = "loop"
    /\ UNCHANGED <<fs, dirs, locals, error, result, runs, hist>>
    /\ UNCHANGED <<qvars, pvars>>

\* (faulty variant: the failing batch is counted as processed)
InsertBatchFails_Counted(d) ==
    /\ pc = "insert"
    /\ clock' = clock + d
    /\ error' = "BatchError"
    /\ processed_count' = Committed(i, Batch(truncated_docs, i))
    /\ pc' = IF checkpoint_file # None /\ vector_store # None
             THEN "save_open" ELSE "raised"
    /\ UNCHANGED <<fs, dirs, locals, vector_store, i, result, runs, hist>>
    /\ UNCHANGED <<qvars, pvars>>

\* lines 110-116, 141-144, 156: the insertion raises
InsertBatchFails(d) ==
    /\ pc = "insert"
    /\ clock' = clock + d
    /\ error' = "BatchError"
    /\ pc' = IF checkpoint_file # None /\ vector_store # None
             THEN "save_open" ELSE "raised"
    /\ UNCHANGED <<fs, dirs, locals, vector_store, processed_count, i, result,
                   runs, hist>>
    /\ UNCHANGED <<qvars, pvars>>

\* lines 125-129 and 146-150
\* (the timestamp, which nothing reads, is left out; w_input and w_path are
\* not in the pickle: they record the build that wrote it)
CheckpointData ==
    [kind |-> "ckpt", vector_store |-> vector_store,
     processed_count |-> processed_count,
     w_input |-> input, w_path |-> persist_path]

\* (faulty variant: the batch error is dropped after the best-effort save)
AfterSave_Swallows == NextIteration

\* after the save: the loop goes on (133-139) or the batch error is raised (156)
AfterSave ==
    IF error = ""
    THEN NextIteration
    ELSE /\ pc' = "raised"
         /\ UNCHANGED <<clock, i>>

\* lines 130, 151: open(checkpoint_file, 'wb') truncates the file
SaveOpen ==
    /\ pc = "save_open"
    /\ fs' = WriteFile(fs, checkpoint_file, Partial)
    /\ hist' = [hist EXCEPT !.before_save =
                   IF Exists(fs, checkpoint_file) THEN <<fs[checkpoint_file]>>
                   ELSE None]
    /\ pc' = "save_dump"
    /\ UNCHANGED <<dirs, locals, vector_store, processed_count, i, clock,
                   error, result, runs>>
    /\ UNCHANGED <<qvars, pvars>>

\* lines 130-133, 151-155: open raises, the file is as it was
SaveOpenFails ==
    /\ pc = "save_open"
    /\ AfterSave
    /\ UNCHANGED <<fs, dirs, locals, vector_store, processed_count, error,
                   result, runs, hist>>
    /\ UNCHANGED <<qvars, pvars>>

\* lines 131, 152: pickle.dump completes
SaveDump ==
    /\ pc = "save_dump"
    /\ fs' = WriteFile(fs, checkpoint_file, CheckpointData)
    /\ hist' = [hist EXCEPT !.saved_count = processed_count,
                            !.before_save = None]
    /\ AfterSave
    /\ UNCHANGED <<dirs, locals, vector_store, processed_count, error, result,
                   runs>>
    /\ UNCHANGED <<qvars, pvars>>

\* (faulty variant: the exception of pickle.dump is not caught)
SaveDumpFails_Aborts ==
    /\ pc = "save_dump"
    /\ error' = "PicklingError"
    /\ pc' = "raised"
    /\ UNCHANGED <<fs, dirs, locals, vector_store, processed_count, i, clock,
                   result, runs, hist>>
    /\ UNCHANGED <<qvars, pvars>>

\* lines 131-133, 152-155: pickle.dump raises, the file stays incomplete
SaveDumpFails ==
    /\ pc = "save_dump"
    /\ AfterSave
    /\ UNCHANGED <<fs, dirs, locals, vector_store, processed_count, error,
                   result, runs, hist>>
    /\ UNCHANGED <<qvars, pvars>>

\* lines 161-165: the checkpoint file is removed when there is one
UnlinkCheckpoint ==
    /\ pc = "finish"
    /\ fs' = IF checkpoint_file # None /\ Exists(fs, checkpoint_file)
             THEN Unlink(fs, checkpoint_file) ELSE fs
    /\ pc' = "persist"
    /\ UNCHANGED <<dirs, locals, vector_store, processed_count, i, clock,
                   error, result, runs, hist>>
    /\ UNCHANGED <<qvars, pvars>>

\* lines 162-167: unlink raises, the file stays
UnlinkCheckpointFails ==
    /\ pc = "finish"
    /\ checkpoint_file # None
    /\ Exists(fs, checkpoint_file)
    /\ pc' = "persist"
    /\ UNCHANGED <<fs, dirs, locals, vector_store, processed_count, i, clock,
                   error, result, runs, hist>>
    /\ UNCHANGED <<qvars, pvars>>

\* lines 169, 174: nothing to persist
ReturnUnpersisted ==
    /\ pc = "persist"
    /\ persist_path = None
    /\ result' = vector_store
    /\ pc' = "returned"
    /\ UNCHANGED <<fs, dirs, locals, vector_store, processed_count, i, clock,
                   error, runs, hist>>
    /\ UNCHANGED <<qvars, pvars>>

\* lines 169-171, 176-180: save_local of an index that was never created
PersistNone ==
    /\ pc = "persist"
    /\ persist_path # None
    /\ vector_store = None
    /\ error' = "AttributeError"
    /\ pc' = "raised"
    /\ UNCHANGED <<fs, dirs, locals, vector_store, processed_count, i, clock,
                   result, runs, hist>>
    /\ UNCHANGED <<qvars, pvars>>

\* line 171: save_local starts to write the index to persist_path
PersistBegin ==
    /\ pc = "persist"
    /\ persist_path # None
    /\ vector_store # None
    /\ fs' = WriteFile(fs, persist_path, Partial)
    /\ hist' = [hist EXCEPT !.wrote_final = TRUE]
    /\ pc' = "persist_write"
    /\ UNCHANGED <<dirs, locals, vector_store, processed_count, i, clock,
                   error, result, runs>>
    /\ UNCHANGED <<qvars, pvars>>

\* lines 171-174: save_local completes and the index is returned
PersistEnd ==
    /\ pc = "persist_write"
    /\ fs' = WriteFile(fs, persist_path, [kind |-> "index", docs |-> vector_store[1]])
    /\ result' = vector_store
    /\ pc' = "returned"
    /\ UNCHANGED <<dirs, locals, vector_store, processed_count, i, clock,
                   error, runs, hist>>
    /\ UNCHANGED <<qvars, pvars>>

\* lines 171, 176-180: save_local raises, before or while it writes
PersistFails ==
    /\ pc \in {"persist", "persist_write"}
    /\ persist_path # None
    /\ vector_store # None
    /\ error' = "PersistError"
    /\ pc' = "raised"
    /\ UNCHANGED <<fs, dirs, locals, vector_store, processed_count, i, clock,
                   result, runs, hist>>
    /\ UNCHANGED <<qvars, pvars>>

\* the process is killed
Running == pc \in {"load", "loop", "insert", "save_open", "save_dump",
                   "finish", "persist", "persist_write"}
\* (its memory is gone: what it held is reset, the call's arguments are kept
\* to tell which call it was)
Crash ==
    /\ Running
    /\ hist' = [hist EXCEPT !.crashed_at = pc, !.crash_count = processed_count]
    /\ pc' = "crashed"
    /\ truncated_docs' = <<>>
    /\ vector_store' = None
    /\ processed_count' = 0
    /\ i' = 0
    /\ clock' = 0
    /\ UNCHANGED <<fs, dirs, input, persist_path, timeout_minutes, max_docs,
                   start_time, timeout_seconds, checkpoint_file, error, result,
                   runs>>
    /\ UNCHANGED <<qvars, pvars>>

\* ------------------------------------------------------ cleanup_checkpoints
\* lines 201-210, one process from start to end
\* (faulty variant: everything beside the destination is removed)
CleanedFiles_Sweep(files, path) ==
    [q \in {r \in DOMAIN files : Parent(r) # Parent(path)
                                  /\ Parent(r) # CheckpointDir(path)}
        |-> files[q]]

CleanedFiles(files, path) ==
    IF CheckpointDir(path) \in dirs /\ Exists(files, CheckpointFile(path))
    THEN Unlink(files, CheckpointFile(path)) ELSE files

CleanedDirs(files, path) ==
    IF CheckpointDir(path) \in dirs /\ FilesIn(files, CheckpointDir(path)) = {}
    THEN dirs \ {CheckpointDir(path)} ELSE dirs

ResetProcess ==
    /\ pc' = "idle"
    /\ input' = "E"
    /\ persist_path' = None
    /\ timeout_minutes' = 1
    /\ max_docs' = None
    /\ truncated_docs' = <<>>
    /\ vector_store' = None
    /\ processed_count' = 0
    /\ i' = 0
    /\ clock' = 0
    /\ start_time' = 0
    /\ timeout_seconds' = 0
    /\ checkpoint_file' = None
    /\ error' = ""
    /\ result' = None
    /\ hist' = NoHist

CleanupCheckpoints(path) ==
    /\ Ended
    /\ runs < MaxRuns
    /\ runs' = runs + 1
    /\ fs' = CleanedFiles(fs, path)
    /\ dirs' = CleanedDirs(fs', path)
    /\ ResetProcess
    /\ UNCHANGED <<qvars, pvars>>

\* (faulty variant: the exception of unlink is not caught)
CleanupCheckpointsFails_Raises(path) ==
    /\ Ended
    /\ runs < MaxRuns
    /\ CheckpointDir(path) \in dirs
    /\ Exists(fs, CheckpointFile(path))
    /\ runs' = runs + 1
    /\ pc' = "raised"
    /\ error' = "OSError"
    /\ input' = "E"
    /\ persist_path' = None
    /\ timeout_minutes' = 1
    /\ max_docs' = None
    /\ truncated_docs' = <<>>
    /\ vector_store' = None
    /\ processed_count' = 0
    /\ i' = 0
    /\ clock' = 0
    /\ start_time' = 0
    /\ timeout_seconds' = 0
    /\ checkpoint_file' = None
    /\ result' = None
    /\ hist' = NoHist
    /\ UNCHANGED <<fs, dirs>>
    /\ UNCHANGED <<qvars, pvars>>

\* lines 211-212: unlink raises and the exception is swallowed
CleanupCheckpointsFails(path) ==
    /\ Ended
    /\ runs < MaxRuns
    /\ CheckpointDir(path) \in dirs
    /\ Exists(fs, CheckpointFile(path))
    /\ runs' = runs + 1
    /\ ResetProcess
    /\ UNCHANGED <<fs, dirs>>
    /\ UNCHANGED <<qvars, pvars>>

Call(calls) ==
    \E c \in calls, tm \in TimeoutChoices :
        CreateVectorStore(c[1], c[2], tm, c[3])

Step ==
    \/ LoadCheckpoint
    \/ LoadCheckpointFails
    \/ LoopTimeout
    \/ LoopNext
    \/ LoopEnd
    \/ \E d \in BatchTicks : InsertBatch(d)
    \/ \E d \in BatchTicks : InsertBatchFails(d)
    \/ SaveOpen
    \/ SaveOpenFails
    \/ SaveDump
    \/ SaveDumpFails
    \/ UnlinkCheckpoint
    \/ UnlinkCheckpointFails
    \/ ReturnUnpersisted
    \/ PersistNone
    \/ PersistBegin
    \/ PersistEnd
    \/ PersistFails
    \/ Crash
    \/ \E path \in Destinations : CleanupCheckpoints(path)
    \/ \E path \in Destinations : CleanupCheckpointsFails(path)

Next == Call(Calls) \/ Step

Spec == Init /\ [][Next]_vars

\* the same program called with and without a limit on the documents
NextLimit == Call(LimitCalls) \/ Step

SpecLimit == Init /\ [][NextLimit]_vars

\* the same program with a provider that can also take a whole deadline for
\* one batch
SlowBatchTicks == {TimeoutSeconds(1) * TicksPerSecond}
SlowCalls ==
    ({"A"} \X {<<"data", "vs1">>, None} \X {None})
    \cup ({"E"} \X {<<"data", "vs1">>} \X {None})

NextSlow ==
    \/ Call(SlowCalls)
    \/ Step
    \/ \E d \in SlowBatchTicks : InsertBatch(d)

SpecSlow == Init /\ [][NextSlow]_vars


\* ---------------------------------------------------- query_retrieval_chain
\* str(e) of an exception: its argument, or the empty string
Str(e) == e.args

\* line 93
TimedOutOutcome == [result |-> <<"Query timed out">>, source_documents |-> <<>>]
\* line 96: f"Query failed: {error}"
FailedOutcome(e) ==
    [result |-> <<"Query failed: ">> \o Str(e), source_documents |-> <<>>]

QueryElapsed(c) == now - query[c].start

\* thread.is_alive()
IsAlive(c) == query[c].thread = "running"

\* (faulty variant: join without a timeout)
JoinExpired_NoTimeout(c) == FALSE

\* the timeout of thread.join(timeout=60) has elapsed
JoinExpired(c) == QueryElapsed(c) >= QueryTimeout

\* lines 75-88: the call, up to thread.start()
StartQuery(c, ch) ==
    /\ query[c].pc = "idle"
    /\ \A d \in QueryCalls : d < c => query[d].pc # "idle"
    /\ query' = [query EXCEPT ![c] = [NoQuery EXCEPT !.pc = "join",
                                                     !.chain = ch,
                                                     !.thread = "running",
                                                     !.start = now]]
    /\ UNCHANGED <<now, research, buildvars, pvars>>

\* (faulty variant: result and error are cells shared by all the calls)
RunQuery_Shared(c) ==
    /\ query[c].thread = "running"
    /\ query[c].chain.kind # "hangs"
    /\ QueryElapsed(c) >= query[c].chain.after
    /\ query' = [d \in QueryCalls |->
           [query[d] EXCEPT
               !.thread = IF d = c THEN "finished" ELSE @,
               !.result = IF query[c].chain.kind = "returns"
                          THEN query[c].chain.value ELSE @,
               !.error = IF query[c].chain.kind = "raises"
                         THEN query[c].chain.error ELSE @]]
    /\ UNCHANGED <<now, research, buildvars, pvars>>

\* lines 78-83: run_query in the worker thread, which ends when chain.invoke
\* returns or raises
RunQuery(c) ==
    /\ query[c].thread = "running"
    /\ query[c].chain.kind # "hangs"
    /\ QueryElapsed(c) >= query[c].chain.after
    /\ query' = [query EXCEPT
           ![c].thread = "finished",
           ![c].result = IF query[c].chain.kind = "returns"
                         THEN query[c].chain.value ELSE @,
           ![c].error = IF query[c].chain.kind = "raises"
                        THEN query[c].chain.error ELSE @]
    /\ UNCHANGED <<now, research, buildvars, pvars>>

\* line 89: join returns, the thread has ended or the timeout has elapsed
JoinReturns(c) ==
    /\ query[c].pc = "join"
    /\ ~IsAlive(c) \/ JoinExpired(c)
    /\ query' = [query EXCEPT ![c].pc = "check",
                              ![c].expired = query[c].thread = "running"]
    /\ UNCHANGED <<now, research, buildvars, pvars>>

\* (faulty variant: the error of the worker is not looked at)
Outcome_IgnoresError(c) ==
    IF IsAlive(c) THEN <<TimedOutOutcome>> ELSE query[c].result

\* lines 91-98: the value returned
Outcome(c) ==
    IF IsAlive(c) THEN <<TimedOutOutcome>>
    ELSE IF query[c].error # None THEN <<FailedOutcome(query[c].error[1])>>
    ELSE query[c].result

\* (faulty variant: the outcome is a view of the worker's cells, evaluated
\* again after the call has returned)
ReturnOutcome_Live(c) ==
    /\ query[c].pc \in {"check", "returned"}
    /\ query[c].pc = "returned" => query[c].outcome # Outcome(c)
    /\ query' = [query EXCEPT ![c].pc = "returned",
                              ![c].alive = query[c].thread = "running",
                              ![c].outcome = Outcome(c),
                              ![c].end = IF query[c].pc = "check" THEN now ELSE @]
    /\ UNCHANGED <<now, research, buildvars, pvars>>

\* lines 91-98
ReturnOutcome(c) ==
    /\ query[c].pc = "check"
    /\ query' = [query EXCEPT ![c].pc = "returned",
                              ![c].alive = query[c].thread = "running",
                              ![c].outcome = Outcome(c),
                              ![c].end = now]
    /\ UNCHANGED <<now, research, buildvars, pvars>>

\* time passes: not past the moment a join has to return, not between the
\* return of join and the return of the call, and only while a caller or a
\* worker is waiting for it
QueryHorizon == 3 * QueryTimeout
Tick ==
    /\ now < QueryHorizon
    /\ \A c \in QueryCalls :
           /\ query[c].pc # "check"
           /\ query[c].pc = "join" => (IsAlive(c) /\ ~JoinExpired(c))
    /\ \E c \in QueryCalls :
           \/ query[c].pc = "join"
           \/ /\ IsAlive(c)
              /\ query[c].chain.kind # "hangs"
              /\ QueryElapsed(c) < query[c].chain.after
    /\ now' = now + QueryTimeout \div 2
    /\ UNCHANGED <<query, research, buildvars, pvars>>

NextQuery ==
    \/ \E c \in QueryCalls, ch \in Chains : StartQuery(c, ch)
    \/ \E c \in QueryCalls : RunQuery(c)
    \/ \E c \in QueryCalls : JoinReturns(c)
    \/ \E c \in QueryCalls : ReturnOutcome(c)
    \/ Tick

SpecQuery == Init /\ [][NextQuery]_vars

\* ------------------------------------- autonomous_research, steps 4 to 6
\* a text is the sequence of its pieces; these pieces are white space
WhiteSpace == {"", " ", "\n\n"}

\* line 272: "\n\n".join(parts)
Join(parts) ==
    IF parts = <<>> THEN <<>>
    ELSE [k \in 1..(2 * Len(parts) - 1) |->
             IF k % 2 = 1 THEN parts[(k + 1) \div 2] ELSE "\n\n"]

\* doc.page_content of a source document
PageContent(doc) == doc

\* all_text.strip()
Strip(text) ==
    LET solid == {k \in DOMAIN text : text[k] \notin WhiteSpace}
    IN  IF solid = {} THEN <<>>
        ELSE SubSeq(text, CHOOSE k \in solid : \A m \in solid : k <= m,
                          CHOOSE k \in solid : \A m \in solid : k >= m)

\* (faulty variant: the text is not tested)
Blank_Never(text) == FALSE

\* line 273: not all_text.strip()
Blank(text) == Strip(text) = <<>>

\* lines 264-275: the outcome of the query is received and its source
\* documents are joined; without text there is nothing to summarise and
\* autonomous_research returns None
JoinSources(c) ==
    /\ query[c].pc = "returned"
    /\ research[c].pc = "query"
    /\ LET rag_response == query[c].outcome[1]
           all_text == Join([k \in DOMAIN rag_response.source_documents |->
                                PageContent(rag_response.source_documents[k])])
       IN  research' = [research EXCEPT ![c] =
               IF Blank(all_text)
               THEN [pc |-> "returned", all_text |-> all_text, value |-> None]
               ELSE [pc |-> "summarize", all_text |-> all_text, value |-> None]]
    /\ UNCHANGED <<query, now, buildvars, pvars>>

\* lines 277-302: the summary is generated and returned (the session is
\* stored on the way, a failure to store it is only logged)
GenerateSummary(c) ==
    /\ research[c].pc = "summarize"
    /\ research' = [research EXCEPT ![c].pc = "returned",
                                    ![c].value = <<"summary_data">>]
    /\ UNCHANGED <<query, now, buildvars, pvars>>

\* lines 281-286: generate_summary_and_insights raises
GenerateSummaryFails(c) ==
    /\ research[c].pc = "summarize"
    /\ research' = [research EXCEPT ![c].pc = "returned", ![c].value = None]
    /\ UNCHANGED <<query, now, buildvars, pvars>>

NextResearch ==
    \/ NextQuery
    \/ \E c \in QueryCalls : JoinSources(c)
    \/ \E c \in QueryCalls : GenerateSummary(c)
    \/ \E c \in QueryCalls : GenerateSummaryFails(c)

SpecResearch == Init /\ [][NextResearch]_vars

\* ------------------------------------------------ builds that are let run
\* the steps of a running build: every call it makes returns or raises
BuildStep ==
    \/ LoadCheckpoint
    \/ LoadCheckpointFails
    \/ LoopTimeout
    \/ LoopNext
    \/ LoopEnd
    \/ \E d \in BatchTicks : InsertBatch(d)
    \/ \E d \in BatchTicks : InsertBatchFails(d)
    \/ SaveOpen
    \/ SaveOpenFails
    \/ SaveDump
    \/ SaveDumpFails
    \/ UnlinkCheckpoint
    \/ UnlinkCheckpointFails
    \/ ReturnUnpersisted
    \/ PersistNone
    \/ PersistBegin
    \/ PersistEnd
    \/ PersistFails

\* a running build is not suspended for ever
SpecTerm == Init /\ [][NextSlow]_vars /\ WF_vars(BuildStep)

\* -------------------------------------- the same build, invoked repeatedly
\* lines 26-77: after a build has failed or timed out, create_vector_store is
\* called again with the same documents and the same persist_path
Rebuild ==
    /\ pc = "raised"
    /\ truncated_docs' = Preprocess(LimitDocs(Input(input), max_docs))
    /\ vector_store' = None
    /\ clock' = 0
    /\ start_time' = 0
    /\ timeout_seconds' = TimeoutSeconds(timeout_minutes)
    /\ checkpoint_file' = IF persist_path # None THEN CheckpointFile(persist_path)
                          ELSE None
    /\ dirs' = IF persist_path # None
               THEN dirs \cup {CheckpointDir(persist_path)} ELSE dirs
    /\ processed_count' = 0
    /\ i' = 0
    /\ error' = ""
    /\ result' = None
    /\ hist' = [NoHist EXCEPT !.prev = Summary]
    /\ pc' = "load"
    /\ UNCHANGED <<fs, input, persist_path, timeout_minutes, max_docs, runs>>
    /\ UNCHANGED <<qvars, pvars>>

RepeatCalls == {<<"A", <<"data", "vs1">>, None>>}

NextRepeat ==
    \/ Call(RepeatCalls)
    \/ Rebuild
    \/ LoadCheckpoint
    \/ LoadCheckpointFails
    \/ LoopTimeout
    \/ LoopNext
    \/ LoopEnd
    \/ \E d \in BatchTicks : InsertBatch(d)
    \/ \E d \in BatchTicks : InsertBatchFails(d)
    \/ SaveOpen
    \/ SaveOpenFails
    \/ SaveDump
    \/ SaveDumpFails
    \/ UnlinkCheckpoint
    \/ UnlinkCheckpointFails
    \/ PersistBegin
    \/ PersistEnd
    \/ PersistFails

\* no invocation is suspended for ever and a failed one is followed by another
SpecRepeat == Init /\ [][NextRepeat]_vars /\ WF_vars(NextRepeat)

\* ------------------------------------------- cleanup of what builds left
\* a destination under another parent directory
OtherDestination == <<"other", "vs3">>

\* the checkpoint an interrupted build of the documents A leaves after its
\* first batch
LeftCheckpoint(path) ==
    [kind |-> "ckpt",
     vector_store |-> <<Batch(Preprocess(Input("A")), 0)>>,
     processed_count |-> batch_size,
     w_input |-> "A", w_path |-> path]

\* what earlier builds and the user have left on disk: a checkpoint of an
\* interrupted build to data/vs1, one of a build to other/vs3, the index of
\* a completed build to data/vs2, and in one case a file of the user's in
\* the checkpoint directory
LeftDisk(withNotes) ==
    LET ckpts == (CheckpointFile(<<"data", "vs1">>)
                      :> LeftCheckpoint(<<"data", "vs1">>))
                 @@ (CheckpointFile(OtherDestination)
                      :> LeftCheckpoint(OtherDestination))
                 @@ (<<"data", "vs2">>
                      :> [kind |-> "index", docs |-> Preprocess(Input("A"))])
    IN  IF withNotes
        THEN ckpts @@ (CheckpointDir(<<"data", "vs1">>) \o <<"notes.txt">>
                          :> [kind |-> "notes"])
        ELSE ckpts

InitCleanup ==
    /\ \E withNotes \in BOOLEAN : fs = LeftDisk(withNotes)
    /\ dirs = {Parent(p) : p \in Destinations \cup {OtherDestination}}
              \cup {CheckpointDir(p) : p \in Destinations \cup {OtherDestination}}
    /\ pc = "idle"
    /\ input = "E"
    /\ persist_path = None
    /\ timeout_minutes = 1
    /\ max_docs = None
    /\ truncated_docs = <<>>
    /\ vector_store = None
    /\ processed_count = 0
    /\ i = 0
    /\ clock = 0
    /\ start_time = 0
    /\ timeout_seconds = 0
    /\ checkpoint_file = None
    /\ error = ""
    /\ result = None
    /\ runs = 0
    /\ hist = NoHist
    /\ query = [c \in QueryCalls |-> NoQuery]
    /\ now = 0
    /\ research = [c \in QueryCalls |-> NoResearch]
    /\ pre = NoPre
    /\ collect = NoCollect

NextCleanup ==
    \/ Call(SlowCalls)
    \/ Step
    \/ CleanupCheckpoints(OtherDestination)
    \/ CleanupCheckpointsFails(OtherDestination)

SpecCleanup == InitCleanup /\ [][NextCleanup]_vars

\* ------------------------------- create_vector_store, lines 39-61, by steps
\* The caller's documents are objects: heap[r] is the content of object r.
\* A list holds references; an entry of truncated_docs is the reference of a
\* document passed through or a new document.
MaxPreDocs == 3
PreDocs == UNION {[1..n -> {Doc(k) : k \in 1..3}] : n \in 0..MaxPreDocs}
PreLimits == {None, <<0>>, <<2>>}

\* (faulty variant: the order of iteration changes from one run to the next)
IterationOrder_PerRun(n) ==
    [k \in 1..n |-> IF pre.run % 2 = 0 THEN k ELSE n + 1 - k]

\* the order in which a list of n references is iterated
IterationOrder(n) == [k \in 1..n |-> k]

\* lines 40-42: docs[:max_docs], a new list of the same objects
LimitRefs(n, md) == LimitDocs(IterationOrder(n), md)

Deref(heap, entry) == IF entry[1] = "ref" THEN heap[entry[2]] ELSE entry[2]

\* (faulty variant: the document is truncated in place)
TruncateAt_InPlace(heap, r) ==
    [heap |-> [heap EXCEPT ![r] = Truncate(heap[r])],
     entry |-> <<"ref", r>>]

\* lines 51-59: the entry appended for the object r, and the heap after it
TruncateAt(heap, r) ==
    [heap |-> heap,
     entry |-> IF StrLen(heap[r].page_content) > max_chars
               THEN <<"new", Truncate(heap[r])>>
               ELSE <<"ref", r>>]

\* lines 39-48: the call, the limit and the empty result list
PreprocessCall(ds, md) ==
    /\ pre.pc = "idle"
    /\ pre' = [NoPre EXCEPT !.pc = "loop", !.heap = ds, !.given = ds,
                            !.max_docs = md,
                            !.docs = LimitRefs(Len(ds), md),
                            !.run = 1]
    /\ UNCHANGED <<buildvars, qvars, collect>>

\* lines 50-59: one iteration of the loop
TruncateNext ==
    /\ pre.pc = "loop"
    /\ pre.k <= Len(pre.docs)
    /\ LET t == TruncateAt(pre.heap, pre.docs[pre.k])
       IN  pre' = [pre EXCEPT !.heap = t.heap,
                              !.truncated_docs = Append(@, t.entry),
                              !.k = @ + 1]
    /\ UNCHANGED <<buildvars, qvars, collect>>

\* lines 50, 61: the list is exhausted
PreprocessEnd ==
    /\ pre.pc = "loop"
    /\ pre.k > Len(pre.docs)
    /\ pre' = [pre EXCEPT !.pc = "done"]
    /\ UNCHANGED <<buildvars, qvars, collect>>

\* the records of truncated_docs, by value
Records(heap, tds) == [j \in 1..Len(tds) |-> Deref(heap, tds[j])]

\* lines 39-48 again: the caller passes the same list to a second call, as
\* after a restart
PreprocessAgain ==
    /\ pre.pc = "done"
    /\ pre.run = 1
    /\ pre' = [pre EXCEPT !.pc = "loop",
                          !.docs = LimitRefs(Len(pre.heap), pre.max_docs),
                          !.truncated_docs = <<>>,
                          !.k = 1,
                          !.run = 2,
                          !.first = Records(pre.heap, pre.truncated_docs)]
    /\ UNCHANGED <<buildvars, qvars, collect>>

NextPreprocess ==
    \/ \E ds \in PreDocs, md \in PreLimits : PreprocessCall(ds, md)
    \/ TruncateNext
    \/ PreprocessEnd
    \/ PreprocessAgain

SpecPreprocess == Init /\ [][NextPreprocess]_vars

\* --------------------------------------- autonomous_research, steps 1 to 3
MaxPapers == 3
\* line 17: the default of max_docs_to_process
DefaultMaxDocsToProcess == 500
\* line 247: min(max_docs_to_process, 200)
VectorStoreCap == 200

\* a paper is the number of documents (chunks) it yields, none when it is
\* skipped, and whether its processing raises after they are appended (as the
\* progress message does for a paper whose title is None)
PaperKinds == [chunks : {0, 2, 120}, raises : BOOLEAN]
PaperLists == UNION {[1..n -> PaperKinds] : n \in 0..MaxPapers}
DocLimits == {0, 1, 100, DefaultMaxDocsToProcess}

\* the documents of paper p: <<p, chunk_index>>
Chunks(papers, p) == [c \in 1..papers[p].chunks |-> <<p, c>>]

\* (faulty variant: every document collected is handed over)
DocsForVectorStore_All(docs, mdp) == docs

\* lines 247-252
DocsForVectorStore(docs, mdp) ==
    LET max_docs_for_vector_store == Min(mdp, VectorStoreCap)
    IN  IF Len(docs) > max_docs_for_vector_store
        THEN SubSeq(docs, 1, max_docs_for_vector_store)
        ELSE docs

\* lines 17-58: the call and the search; without papers it returns None
Research(ps, mdp) ==
    /\ collect.pc = "idle"
    /\ collect' = [NoCollect EXCEPT
                       !.pc = IF ps = <<>> THEN "returned" ELSE "papers",
                       !.papers = ps,
                       !.max_docs_to_process = mdp]
    /\ UNCHANGED <<buildvars, qvars, pre>>

\* lines 62-234: one paper; the limit is tested after its documents are
\* appended, unless its processing raised
ProcessPaper ==
    /\ collect.pc = "papers"
    /\ collect.p <= Len(collect.papers)
    /\ LET docs == collect.docs \o Chunks(collect.papers, collect.p)
           stop == /\ ~collect.papers[collect.p].raises
                   /\ Len(docs) >= collect.max_docs_to_process
       IN  collect' = [collect EXCEPT !.docs = docs,
                                      !.p = IF stop THEN @ ELSE @ + 1,
                                      !.pc = IF stop THEN "index" ELSE @]
    /\ UNCHANGED <<buildvars, qvars, pre>>

\* line 62: the papers are exhausted
PapersEnd ==
    /\ collect.pc = "papers"
    /\ collect.p > Len(collect.papers)
    /\ collect' = [collect EXCEPT !.pc = "index"]
    /\ UNCHANGED <<buildvars, qvars, pre>>

\* lines 236-238: no document
NoDocs ==
    /\ collect.pc = "index"
    /\ collect.docs = <<>>
    /\ collect' = [collect EXCEPT !.pc = "returned"]
    /\ UNCHANGED <<buildvars, qvars, pre>>

\* lines 244-254: the documents passed to create_vector_store
HandOver ==
    /\ collect.pc = "index"
    /\ collect.docs # <<>>
    /\ collect' = [collect EXCEPT
                       !.pc = "build",
                       !.handed = <<DocsForVectorStore(collect.docs,
                                        collect.max_docs_to_process)>>]
    /\ UNCHANGED <<buildvars, qvars, pre>>

NextCollect ==
    \/ \E ps \in PaperLists, mdp \in DocLimits : Research(ps, mdp)
    \/ ProcessPaper
    \/ PapersEnd
    \/ NoDocs
    \/ HandOver

SpecCollect == Init /\ [][NextCollect]_vars

\* ===================================================================== claims
\* what an uninterrupted build of the call's documents indexes
Expected(name, md) == Preprocess(LimitDocs(Input(name), md))

IndexDocs(vs) == IF vs = None THEN <<>> ELSE vs[1]

HasCheckpoint ==
    /\ checkpoint_file # None
    /\ Exists(fs, checkpoint_file)
    /\ IsCheckpoint(fs[checkpoint_file])

\* this invocation repeats the call of the interrupted build before it
RepeatsInterrupted ==
    /\ hist.prev # None
    /\ hist.prev[1] = [input |-> input, max_docs |-> max_docs,
                       persist_path |-> persist_path]

\* C1: a build that met no checkpoint and was interrupted (kill, deadline or
\* failing batch) after it had saved a checkpoint, followed by the same call,
\* ends, when the second call returns, with the index, the count and the
\* persisted index of an uninterrupted build of the same documents.
C1_ResumeEqualsUninterrupted ==
    (pc = "returned" /\ RepeatsInterrupted) =>
        /\ IndexDocs(result) = Expected(input, max_docs)
        /\ processed_count = Len(Expected(input, max_docs))
        /\ Exists(fs, persist_path)
        /\ fs[persist_path] =
               [kind |-> "index", docs |-> Expected(input, max_docs)]

C1_Witness ==
    /\ pc = "returned"
    /\ RepeatsInterrupted
    /\ hist.resumed
    /\ hist.inserts > 0
    /\ Len(IndexDocs(result)) = NDocs

\* C2: every complete checkpoint on disk stores an index that holds exactly
\* the first processed_count preprocessed documents of the build that wrote
\* it, in order.
C2_CheckpointIsPrefix ==
    \A f \in DOMAIN fs :
        IsCheckpoint(fs[f]) =>
            /\ fs[f].processed_count <= Len(Preprocess(Input(fs[f].w_input)))
            /\ IndexDocs(fs[f].vector_store) =
                   SubSeq(Preprocess(Input(fs[f].w_input)), 1,
                          fs[f].processed_count)

\* C3: after a kill during a checkpoint save the checkpoint file is absent
\* or holds the complete checkpoint it held before the save.
C3_SaveAtomic ==
    (pc = "crashed" /\ hist.crashed_at = "save_dump") =>
        \/ ~Exists(fs, checkpoint_file)
        \/ /\ hist.before_save # None
           /\ IsCheckpoint(hist.before_save[1])
           /\ fs[checkpoint_file] = hist.before_save[1]

\* C4: a build that finds a checkpoint written for other documents (or the
\* same in another order) starts at offset 0 with no index.
C4_StaleCheckpointRejected ==
    (/\ pc = "loop"
     /\ hist.inserts = 0
     /\ hist.found # None
     /\ hist.found[1].input # input) =>
        /\ vector_store = None
        /\ processed_count = 0
        /\ i = 0

\* C5: the checkpoint a build reads was written by a build for the same
\* destination path.
C5_OwnCheckpointOnly ==
    (hist.found # None /\ hist.found[1].path # None) =>
        hist.found[1].path = persist_path

\* C6: when create_vector_store raises after a checkpoint save of this build
\* has completed, a complete checkpoint with at least that progress is on disk.
C6_ErrorKeepsCheckpoint ==
    (pc = "raised" /\ hist.saved_count > 0) =>
        /\ HasCheckpoint
        /\ fs[checkpoint_file].processed_count >= hist.saved_count

\* C7: a build ended by the deadline or by a failing batch has written
\* nothing to persist_path, and the checkpoint directory of the destination
\* holds at most one file.
C7_FailedBuildLeavesNoIndex ==
    (pc = "raised" /\ error \in {"TimeoutError", "BatchError"}) =>
        /\ ~hist.wrote_final
        /\ Cardinality(FilesIn(fs, CheckpointDir(persist_path))) <= 1

C7_Witness ==
    /\ pc = "raised"
    /\ error = "BatchError"
    /\ hist.inserts > 1
    /\ HasCheckpoint
    /\ Cardinality(FilesIn(fs, CheckpointDir(persist_path))) = 1

\* C8: after a build with a persist_path has returned there is no checkpoint
\* file for the destination; after a build has raised, the checkpoint it
\* saved last is still there.
C8_CheckpointLifecycle ==
    /\ (pc = "returned" /\ persist_path # None) =>
           ~Exists(fs, checkpoint_file)
    /\ (pc = "raised" /\ hist.saved_count > 0) =>
           /\ HasCheckpoint
           /\ fs[checkpoint_file].processed_count = hist.saved_count

\* C9: when max_docs is given and there are more documents than max_docs,
\* exactly the first max_docs documents are preprocessed, and a build from
\* no checkpoint that returns has indexed exactly those.
C9_MaxDocsPrefix ==
    (/\ pc \notin {"idle", "crashed"}
     /\ max_docs # None
     /\ Len(Input(input)) > max_docs[1]) =>
        /\ truncated_docs = Preprocess(SubSeq(Input(input), 1, max_docs[1]))
        /\ (pc = "returned" /\ hist.found = None) =>
               IndexDocs(result) =
                   Preprocess(SubSeq(Input(input), 1, max_docs[1]))

\* C10 as stated: no batch insertion is started once the elapsed time has
\* reached the deadline, the deadline itself included.
C10_NoBatchAtDeadline ==
    pc = "insert" => clock - start_time < timeout_seconds * TicksPerSecond

\* C10 as amended: no batch insertion is started once the elapsed time
\* exceeds the deadline, and the build is failed with a timeout only then; at
\* exactly the deadline the batch is started.
C10_NoBatchAfterDeadline ==
    /\ pc = "insert" => clock - start_time <= timeout_seconds * TicksPerSecond
    /\ (pc = "raised" /\ error = "TimeoutError") =>
           clock - start_time > timeout_seconds * TicksPerSecond

C10_Witness ==
    /\ pc = "insert"
    /\ hist.inserts > 1
    /\ clock - start_time = timeout_seconds * TicksPerSecond

\* ------------------------------------------------------------- the deadline
CeilDiv(a, b) == (a + b - 1) \div b

\* line 95
TotalBatches == CeilDiv(Len(truncated_docs), batch_size)

\* the deadline of the call and the time spent since start_time, in ticks
Deadline == timeout_minutes * SecondsPerMinute * TicksPerSecond
Elapsed == clock - start_time

Durations == BatchTicks \cup SlowBatchTicks

\* the time on the clock when n batches were completed and each of them took
\* t (the sleep after each batch included; a save takes no time)
EveryBatchTook(t, n) == Elapsed = n * (t + SleepTicks)

TimedOutRaised == pc = "raised" /\ error = "TimeoutError"

\* C11 as stated: with a deadline D and every batch taking t, a build from no
\* checkpoint whose k batches take more than D in all (k * t > D) does not end
\* normally; it starts at most ceil(D/t) + 1 batches, then reports a timeout,
\* and (when it has a destination and its saves succeeded) a checkpoint with
\* the completed batches is on disk.
C11_SlowBuildTimesOut ==
    \A t \in Durations :
        /\ (/\ pc \in {"finish", "persist", "persist_write", "returned"}
            /\ hist.found = None
            /\ hist.inserts = TotalBatches
            /\ EveryBatchTook(t, hist.inserts)) =>
               TotalBatches * t <= Deadline
        /\ (TimedOutRaised /\ EveryBatchTook(t, hist.inserts)) =>
               /\ hist.inserts <= CeilDiv(Deadline, t) + 1
               /\ (persist_path # None /\ hist.saved_count = processed_count) =>
                      /\ HasCheckpoint
                      /\ fs[checkpoint_file].processed_count = processed_count

\* C11 as amended: with a deadline D and every batch taking t, an invocation
\* starts at most ceil(D/t) + 1 batch insertions; a timeout is reported only
\* at the check before a batch, when more than D has elapsed and documents
\* remain; and when the save after the last completed batch succeeded, that
\* checkpoint (the index and count of the completed batches) is on disk.
C11_DeadlineBound ==
    /\ \A t \in Durations :
           (pc = "insert" /\ EveryBatchTook(t, hist.inserts - 1)) =>
               hist.inserts <= CeilDiv(Deadline, t) + 1
    /\ TimedOutRaised =>
           /\ Elapsed > Deadline
           /\ RangeHasNext(i, Len(truncated_docs))
    /\ (/\ TimedOutRaised
        /\ hist.saved_count > 0
        /\ hist.saved_count = processed_count) =>
           /\ HasCheckpoint
           /\ fs[checkpoint_file] = CheckpointData

C11_Witness ==
    /\ TimedOutRaised
    /\ hist.inserts = 2
    /\ EveryBatchTook((TimeoutSeconds(1) * TicksPerSecond) \div 2, 2)
    /\ HasCheckpoint
    /\ fs[checkpoint_file].processed_count = 2 * batch_size

\* ------------------------------------------------------------------- errors
\* C12: once the deadline check has failed or a batch insertion has raised,
\* the call only makes its best-effort save and raises (or is killed); it
\* starts no further batch and never returns an index.
C12_ErrorsAreRaised ==
    error \in {"TimeoutError", "BatchError"} =>
        /\ pc \in {"save_open", "save_dump", "raised", "crashed"}
        /\ result = None

C12_Witness ==
    /\ pc = "raised"
    /\ error = "BatchError"
    /\ hist.inserts = 2
    /\ processed_count = batch_size
    /\ HasCheckpoint

\* C13: a checkpoint file that is incomplete or cannot be read is treated as
\* absent: it is never loaded, the build goes on from offset 0 with no index
\* and no error, it fails only as a build without a checkpoint fails (an
\* empty input excepted, it has started a batch), and when it returns, it
\* returns the index of all the documents.
C13_CorruptCheckpointIsAbsent ==
    /\ (/\ pc = "loop"
        /\ hist.inserts = 0
        /\ hist.found # None
        /\ ~IsCheckpoint(fs[checkpoint_file])) => ~hist.resumed
    /\ (hist.found # None /\ ~hist.resumed) =>
           /\ (pc = "loop" /\ hist.inserts = 0) =>
                  /\ vector_store = None
                  /\ processed_count = 0
                  /\ i = 0
                  /\ error = ""
           /\ (pc = "raised" /\ hist.inserts = 0) =>
                  /\ error = "AttributeError"
                  /\ truncated_docs = <<>>
           /\ pc = "returned" =>
                  IndexDocs(result) = Expected(input, max_docs)

C13_Witness ==
    /\ pc = "returned"
    /\ hist.found # None
    /\ hist.found[1].input = ""
    /\ ~hist.resumed
    /\ Len(IndexDocs(result)) = NDocs

\* a step in which open or pickle.dump of a checkpoint save raises
SaveFailed ==
    /\ pc \in {"save_open", "save_dump"}
    /\ pc' \notin {"save_dump", "crashed"}
    /\ fs' = fs

\* C14: when the checkpoint save after a successful batch fails, the build
\* is not aborted: the index and processed_count of the batch are kept, no
\* error is set, and the loop goes on with the next batch.
C14_SaveFailureNotFatal ==
    [][(SaveFailed /\ error = "") =>
           /\ pc' = "loop"
           /\ error' = ""
           /\ vector_store' = vector_store
           /\ processed_count' = processed_count
           /\ processed_count' = i + Len(Batch(truncated_docs, i))
           /\ SubSeq(IndexDocs(vector_store'), i + 1, processed_count') =
                  Batch(truncated_docs, i)
           /\ i' = i + batch_size]_vars

C14_Witness ==
    /\ pc = "insert"
    /\ hist.inserts = 2
    /\ hist.found = None
    /\ hist.saved_count = 0
    /\ processed_count = batch_size
    /\ checkpoint_file # None
    /\ Exists(fs, checkpoint_file)
    /\ fs[checkpoint_file] = Partial

\* ------------------------------------------------------------------ crashes
\* the progress the next invocation takes from the disk (lines 80-93)
Recoverable ==
    IF HasCheckpoint THEN fs[checkpoint_file].processed_count ELSE 0

\* C15: when the process is killed during a build with a destination (whose
\* completed saves are not more than one batch behind, as they are unless a
\* save has failed), the progress recoverable from the disk is at most one
\* batch behind the progress the process had completed in memory.
C15_CrashLosesAtMostOneBatch ==
    (/\ pc = "crashed"
     /\ checkpoint_file # None
     /\ hist.crash_count - hist.saved_count <= batch_size) =>
        hist.crash_count - Recoverable <= batch_size

\* ------------------------------------------------------------------ cleanup
\* a step that is a whole call of cleanup_checkpoints
IsCleanupStep == Ended /\ runs' = runs + 1 /\ pc' # "load"

\* a further call of cleanup_checkpoints(path) changes nothing
CleanupFixpoint(path) ==
    /\ CleanedFiles(fs, path) = fs
    /\ CleanedDirs(CleanedFiles(fs, path), path) = dirs

\* C16: a call of cleanup_checkpoints ends without an error, whatever it
\* finds; and unless the removal of the file failed, it leaves a state that
\* a second call does not change (the file and the empty directory are gone,
\* or were not there).
C16_CleanupIdempotent ==
    [][IsCleanupStep =>
           /\ pc' = "idle"
           /\ error' = ""
           /\ \A path \in Destinations :
                  \/ Exists(fs', CheckpointFile(path))
                  \/ CleanupFixpoint(path)']_vars

C16_Witness ==
    /\ pc = "idle"
    /\ runs = 2
    /\ CheckpointDir(<<"data", "vs1">>) \notin dirs
    /\ Exists(fs, <<"data", "vs1">>)

\* --------------------------------------------------------------- truncation
\* the documents of the call after the max_docs limit (lines 39-42)
LimitedInput == LimitDocs(Input(input), max_docs)

HasTruncated(doc) == <<"truncated", 1>> \in doc.metadata
OriginalLength(doc) == {kv[2] : kv \in {m \in doc.metadata : m[1] = "original_length"}}

\* C17: every input document has one preprocessed document, in order, whose
\* content is at most max_chars + len("... [truncated]") long and whose
\* metadata has truncated = True exactly when the input content was longer
\* than max_chars, with original_length the length of the input content; a
\* document that is not longer is passed through as it is.  (Stated where
\* the truncation loop has just ended; truncated_docs is not assigned again.)
C17_TruncationInvariant ==
    pc = "load" =>
        /\ Len(truncated_docs) = Len(LimitedInput)
        /\ \A j \in 1..Len(truncated_docs) :
               LET out == truncated_docs[j]
                   original == StrLen(LimitedInput[j].page_content)
               IN  /\ StrLen(out.page_content) <= max_chars + MarkerLen
                   /\ HasTruncated(out) <=> original > max_chars
                   /\ original > max_chars =>
                          /\ OriginalLength(out) = {original}
                          /\ out.page_content.len = max_chars
                          /\ out.page_content.src = LimitedInput[j].page_content.src
                   /\ original <= max_chars => out = LimitedInput[j]

C17_Witness ==
    /\ pc = "load"
    /\ Len(truncated_docs) = NDocs
    /\ \E j \in 1..Len(truncated_docs) :
           /\ HasTruncated(truncated_docs[j])
           /\ StrLen(truncated_docs[j].page_content) = max_chars + MarkerLen
    /\ \E j \in 1..Len(truncated_docs) :
           /\ ~HasTruncated(truncated_docs[j])
           /\ StrLen(truncated_docs[j].page_content) = max_chars

\* C18 as stated: every document of a batch has a content of at most
\* max_chars characters.
C18_ContentWithinMaxChars ==
    pc = "insert" =>
        \A j \in 1..Len(Batch(truncated_docs, i)) :
            StrLen(Batch(truncated_docs, i)[j].page_content) <= max_chars

\* C18 as amended: every document of a batch has a content of at most
\* max_chars + len("... [truncated]") characters: exactly that many when it
\* was cut, and at most max_chars when it was not.
C18_ContentWithinMaxCharsAndMarker ==
    pc = "insert" =>
        \A j \in 1..Len(Batch(truncated_docs, i)) :
            LET content == Batch(truncated_docs, i)[j].page_content
            IN  IF content.marker
                THEN StrLen(content) = max_chars + MarkerLen
                ELSE StrLen(content) <= max_chars

C18_Witness ==
    /\ pc = "insert"
    /\ \E j \in 1..Len(Batch(truncated_docs, i)) :
           StrLen(Batch(truncated_docs, i)[j].page_content) = max_chars + MarkerLen

\* ---------------------------------------------------- query_retrieval_chain
Returned(c) == query[c].pc = "returned"

C20_OneOutcomeInTime ==
    \A c \in QueryCalls :
        Returned(c) =>
            /\ query[c].end - query[c].start <= QueryTimeout
            /\ Cardinality({k \in {"success", "timed out", "failed"} :
                   \/ k = "success" /\ query[c].outcome \in {<<a>> : a \in Answers}
                   \/ k = "timed out" /\ query[c].outcome = <<TimedOutOutcome>>
                   \/ k = "failed" /\ query[c].outcome \in
                                          {<<FailedOutcome(e)>> : e \in Errors}})
                   = 1

C20_Witness ==
    \E c \in QueryCalls :
        /\ Returned(c)
        /\ query[c].chain.kind = "hangs"
        /\ query[c].end - query[c].start = QueryTimeout
        /\ query[c].outcome = <<TimedOutOutcome>>

\* C21: once a call has returned, the outcome it returned never changes: in
\* particular a worker abandoned by a timed-out call may end later, and the
\* step in which it ends changes the cells of its own call only, not the
\* outcome returned and nothing of any other call.
C21_LateWorkerIgnored ==
    [][\A c \in QueryCalls :
          /\ Returned(c) =>
                 /\ query'[c].pc = "returned"
                 /\ query'[c].outcome = query[c].outcome
                 /\ query'[c].end = query[c].end
          /\ (query[c].thread = "running" /\ query'[c].thread = "finished") =>
                 \A d \in QueryCalls \ {c} : query'[d] = query[d]]_vars

\* a timed-out call whose worker has ended since with an answer, and a later
\* call that returned the failure of its own worker
C21_Witness ==
    \E c \in QueryCalls, d \in QueryCalls :
        /\ c # d
        /\ Returned(c)
        /\ query[c].alive
        /\ query[c].outcome = <<TimedOutOutcome>>
        /\ query[c].thread = "finished"
        /\ query[c].result \in {<<a>> : a \in Answers}
        /\ Returned(d)
        /\ query[d].start >= query[c].end
        /\ query[d].end >= query[c].start + query[c].chain.after
        /\ query[d].chain.kind = "raises"
        /\ query[d].outcome = <<FailedOutcome(query[d].chain.error[1])>>

\* C22: the calls share no cell: at any moment the result and the error of a
\* call are unset or what its own chain returned or raised, and a call that
\* has returned has returned the timed-out outcome, the answer of its own
\* chain or the failure of its own chain, whatever the other call does in
\* between.
C22_OwnWorkerOnly ==
    \A c \in QueryCalls :
        /\ query[c].result # None =>
               /\ query[c].chain.kind = "returns"
               /\ query[c].result = query[c].chain.value
        /\ query[c].error # None =>
               /\ query[c].chain.kind = "raises"
               /\ query[c].error = query[c].chain.error
        /\ Returned(c) =>
               \/ query[c].outcome = <<TimedOutOutcome>> /\ query[c].alive
               \/ /\ query[c].chain.kind = "returns"
                  /\ query[c].outcome = query[c].chain.value
               \/ /\ query[c].chain.kind = "raises"
                  /\ query[c].outcome = <<FailedOutcome(query[c].chain.error[1])>>

\* two calls that overlap in time, the second one's worker ending first with
\* an error, the first one's with an answer: each has returned its own
C22_Witness ==
    \E c \in QueryCalls, d \in QueryCalls :
        /\ c # d
        /\ Returned(c)
        /\ Returned(d)
        /\ query[c].start <= query[d].start
        /\ query[d].end < query[c].end
        /\ query[d].chain.kind = "raises"
        /\ query[d].outcome = <<FailedOutcome(query[d].chain.error[1])>>
        /\ query[c].chain.kind = "returns"
        /\ query[c].outcome = query[c].chain.value
        /\ query[c].outcome # query[d].outcome

\* C23: a call whose worker was still running at the test, or had raised,
\* has returned a value, the timed-out or the failed outcome, whose list of
\* source documents is empty; autonomous_research, given that outcome, has
\* nothing to summarise and returns None: it never goes on to the summary.
C23_NeutralOutcomeNoAnswer ==
    \A c \in QueryCalls :
        (Returned(c) /\ (query[c].alive \/ query[c].error # None)) =>
            /\ query[c].outcome \in
                   {<<TimedOutOutcome>>} \cup {<<FailedOutcome(e)>> : e \in Errors}
            /\ query[c].outcome[1].source_documents = <<>>
            /\ research[c].pc \in {"query", "returned"}
            /\ research[c].value = None

\* one call timed out, the other one's worker raised, and autonomous_research
\* has returned None for both
C23_Witness ==
    \E c \in QueryCalls, d \in QueryCalls :
        /\ Returned(c)
        /\ query[c].alive
        /\ query[c].outcome = <<TimedOutOutcome>>
        /\ research[c] = [pc |-> "returned", all_text |-> <<>>, value |-> None]
        /\ Returned(d)
        /\ ~query[d].alive
        /\ query[d].chain.kind = "raises"
        /\ query[d].outcome = <<FailedOutcome(query[d].chain.error[1])>>
        /\ research[d] = [pc |-> "returned", all_text |-> <<>>, value |-> None]

\* C24: in a build that has written a checkpoint, the checkpoint
\* is gone only when the final index is on disk at the destination: there is
\* no state of the build, however it goes on, in which the checkpoint has
\* been deleted and the index it held is not persisted.
C24_CheckpointDeletedAfterPersist ==
    ( /\ pc \in {"finish", "persist", "persist_write", "returned", "raised"}
      /\ checkpoint_file # None
      /\ hist.saved_count > 0
      /\ ~Exists(fs, checkpoint_file) ) =>
        /\ Exists(fs, persist_path)
        /\ fs[persist_path] = [kind |-> "index", docs |-> IndexDocs(vector_store)]

\* C25: the step in which the build times out changes no file and no
\* directory.  The checkpoint it leaves is therefore the one on disk before:
\* when the save after the last committed batch succeeded, the checkpoint of
\* that batch (its index and its processed_count); when the build found none
\* and has completed no save, none, or what a failed save left of one.
C25_TimeoutKeepsCheckpoint ==
    [][(pc = "loop" /\ pc' = "raised" /\ error' = "TimeoutError") =>
          /\ fs' = fs
          /\ dirs' = dirs
          /\ (checkpoint_file # None /\ hist.saved_count > 0
                  /\ hist.saved_count = processed_count) =>
                 /\ Exists(fs', checkpoint_file)
                 /\ fs'[checkpoint_file].kind = "ckpt"
                 /\ fs'[checkpoint_file].processed_count = processed_count'
                 /\ fs'[checkpoint_file].vector_store = vector_store'
          /\ (checkpoint_file # None /\ hist.found = None
                  /\ hist.saved_count = 0) =>
                 (Exists(fs', checkpoint_file) =>
                      fs'[checkpoint_file] = Partial)]_vars

\* a build timed out after two batches: their checkpoint is on disk
C25_Witness ==
    /\ TimedOutRaised
    /\ processed_count = 2 * batch_size
    /\ hist.saved_count = processed_count
    /\ HasCheckpoint
    /\ fs[checkpoint_file] = CheckpointData

\* C26: a batch that is inserted while the build holds no index makes the new
\* index, of that batch alone, and this happens for the batch at offset 0
\* only, in a build that resumed from no checkpoint; a batch inserted while
\* the build holds an index, restored or made, is appended to that index;
\* and the build never loses the index it holds.
C26_IndexMadeOnce ==
    [][/\ (pc = "insert" /\ pc' \in {"save_open", "loop"} /\ error' = "") =>
              IF vector_store = None
              THEN /\ IndexDocs(vector_store') = Batch(truncated_docs, i)
                   /\ i = 0
                   /\ ~hist.resumed
                   /\ hist.inserts = 1
              ELSE /\ vector_store' # None
                   /\ IndexDocs(vector_store') =
                          IndexDocs(vector_store) \o Batch(truncated_docs, i)
       /\ (Running /\ pc' \notin {"crashed", "idle"} /\ runs' = runs
               /\ vector_store # None) =>
              /\ vector_store' # None
              /\ Len(IndexDocs(vector_store')) >= Len(IndexDocs(vector_store))
              /\ SubSeq(IndexDocs(vector_store'), 1, Len(IndexDocs(vector_store)))
                     = IndexDocs(vector_store)]_vars

\* a build that resumed from a checkpoint of one batch has appended the two
\* others to the restored index
C26_Witness ==
    /\ pc = "loop"
    /\ hist.resumed
    /\ hist.inserts = 2
    /\ Len(IndexDocs(vector_store)) = NDocs
    /\ processed_count = NDocs

C28_ProcessedCountBounds ==
    LET total == Len(truncated_docs)
        InBounds(k) == k <= total /\ (k % batch_size = 0 \/ k = total)
    IN  (Running \/ pc \in {"returned", "raised"}) =>
            /\ InBounds(processed_count)
            /\ (HasCheckpoint /\ hist.saved_count > 0) =>
                   InBounds(fs[checkpoint_file].processed_count)

\* C29: within an invocation processed_count never decreases and the offset
\* of the loop only moves forward, by batch_size; a batch is started only
\* when everything before its offset is committed (processed_count and the
\* size of the index equal the offset), and its successful insertion
\* advances processed_count by exactly the size of the batch, which is not
\* empty.
C29_BatchesInOrder ==
    [][(Running /\ runs' = runs /\ pc' \notin {"crashed", "idle"}) =>
          /\ processed_count' >= processed_count
          /\ i' >= i
          /\ (i' # i /\ pc # "load") => i' = i + batch_size
          /\ (pc # "insert" /\ pc' = "insert") =>
                 /\ processed_count = i
                 /\ Len(IndexDocs(vector_store)) = i
                 /\ hist'.inserts = hist.inserts + 1
          /\ (pc = "insert" /\ error' = "") =>
                 /\ Len(Batch(truncated_docs, i)) \in 1..batch_size
                 /\ processed_count' =
                        processed_count + Len(Batch(truncated_docs, i))
                 /\ IndexDocs(vector_store') =
                        SubSeq(IndexDocs(vector_store), 1, i)
                            \o Batch(truncated_docs, i)
          /\ (pc # "insert" \/ error' # "") =>
                 processed_count' = processed_count \/ pc = "load"]_vars

\* the third batch of a build from nothing is started after two commits
C29_Witness ==
    /\ pc = "insert"
    /\ ~hist.resumed
    /\ hist.inserts = 3
    /\ i = 2 * batch_size
    /\ processed_count = i
    /\ Len(IndexDocs(vector_store)) = i

\* C30: the timeout is raised only at the head of the loop, before a batch
\* that remains to be started, when the time elapsed exceeds the deadline.
\* An insertion during which the deadline passes is committed like any other
\* and goes on to its checkpoint; when no batch remains the loop ends and
\* the build goes on to persist and return, however late it is: it fails
\* with a timeout from no later position.
C30_DeadlinePolledBeforeBatch ==
    [][/\ (error = "" /\ error' = "TimeoutError") =>
              /\ pc = "loop"
              /\ RangeHasNext(i, Len(truncated_docs))
              /\ TimedOut(clock - start_time, timeout_seconds)
       /\ (pc = "insert" /\ error' = ""
               /\ ~TimedOut(clock - start_time, timeout_seconds)
               /\ TimedOut(clock' - start_time, timeout_seconds)) =>
              /\ processed_count' = i + Len(Batch(truncated_docs, i))
              /\ IndexDocs(vector_store') =
                     IndexDocs(vector_store) \o Batch(truncated_docs, i)
              /\ pc' = IF checkpoint_file # None THEN "save_open" ELSE "loop"
       /\ (pc = "loop" /\ ~RangeHasNext(i, Len(truncated_docs))
               /\ pc' # "crashed") =>
              /\ pc' = "finish"
              /\ error' = ""
       /\ (pc \in {"finish", "persist", "persist_write"}
               /\ pc' \in {"raised", "returned"}) =>
              error' # "TimeoutError"]_vars

\* a build of three batches has returned the whole index although the
\* deadline passed while its last batch was being inserted
C30_Witness ==
    /\ pc = "returned"
    /\ ~hist.resumed
    /\ hist.inserts = TotalBatches
    /\ TimedOut(clock - start_time, timeout_seconds)
    /\ \E d \in BatchTicks :
           ~TimedOut(clock - start_time - d - SleepTicks, timeout_seconds)
    /\ IndexDocs(result) = truncated_docs
    /\ Len(truncated_docs) = NDocs

\* ---------------------------------------------------------- preprocessing
\* C31: when the preprocessing has ended it holds one record per document of
\* the (limited) input, the record at position j being that of document j:
\* the document itself when its text is within max_chars, also when the text
\* is empty, and its truncation otherwise; and at every moment the caller's
\* documents, text and metadata, are as they were given.
C31_PreprocessPure ==
    /\ pre.heap = pre.given
    /\ pre.pc = "done" =>
           LET limited == LimitDocs(pre.given, pre.max_docs)
               out == Records(pre.heap, pre.truncated_docs)
           IN  /\ Len(out) = Len(limited)
               /\ \A j \in 1..Len(out) :
                      /\ out[j].page_content.src = limited[j].page_content.src
                      /\ StrLen(limited[j].page_content) <= max_chars =>
                             /\ pre.truncated_docs[j] = <<"ref", j>>
                             /\ out[j] = limited[j]
                      /\ StrLen(limited[j].page_content) > max_chars =>
                             /\ pre.truncated_docs[j][1] = "new"
                             /\ out[j] = Truncate(limited[j])
               /\ out = Preprocess(limited)

\* three documents, the first too long, the second empty: three records,
\* the first one new, and the caller's documents are untouched
C31_Witness ==
    /\ pre.pc = "done"
    /\ Len(pre.given) = 3
    /\ ~Truthy(pre.max_docs)
    /\ StrLen(pre.given[1].page_content) > max_chars
    /\ StrLen(pre.given[2].page_content) = 0
    /\ Len(pre.truncated_docs) = 3
    /\ pre.truncated_docs[1][1] = "new"
    /\ pre.truncated_docs[2] = <<"ref", 2>>
    /\ pre.heap = pre.given

C33_CleanupFrame ==
    [][/\ IsCleanupStep =>
              \E path \in Destinations \cup {OtherDestination} :
                  /\ DOMAIN fs' \subseteq DOMAIN fs
                  /\ DOMAIN fs \ DOMAIN fs' \subseteq {CheckpointFile(path)}
                  /\ \A q \in DOMAIN fs' : fs'[q] = fs[q]
                  /\ dirs' \subseteq dirs
                  /\ dirs \ dirs' \subseteq {CheckpointDir(path)}
                  /\ dirs' # dirs =>
                         /\ FilesIn(fs', CheckpointDir(path)) = {}
                         /\ ~Exists(fs', CheckpointFile(path))
       /\ (pc = "load" /\ pc' = "loop" /\ ~Exists(fs, checkpoint_file)) =>
              /\ processed_count' = 0
              /\ i' = 0
              /\ vector_store' = None
              /\ ~hist'.resumed]_vars

\* the checkpoint left at data/checkpoints has been cleaned up and a build to
\* data/vs1 has started from nothing; the user's file, its directory, the
\* index at data/vs2 and the checkpoint under other/ are as they were
C33_Witness ==
    /\ pc = "loop"
    /\ runs = 2
    /\ persist_path = <<"data", "vs1">>
    /\ hist.inserts = 0
    /\ processed_count = 0
    /\ vector_store = None
    /\ DOMAIN fs = DOMAIN LeftDisk(TRUE) \ {checkpoint_file}
    /\ \A q \in DOMAIN fs : fs[q] = LeftDisk(TRUE)[q]
    /\ CheckpointDir(persist_path) \in dirs

\* ------------------------------------------- autonomous_research, collection
\* what the papers processed so far have yielded, in the order of the papers
RECURSIVE Collected(_, _)
Collected(papers, n) ==
    IF n = 0 THEN <<>> ELSE Collected(papers, n - 1) \o Chunks(papers, n)

\* C34: the documents autonomous_research passes to create_vector_store are
\* at most max_docs_to_process (and at most 200), and they are the first
\* documents, in the order collected, of what the papers processed yielded.
C34_HandsOverPrefix ==
    collect.pc = "build" =>
        LET handed == collect.handed[1]
        IN  /\ Len(handed) <= collect.max_docs_to_process
            /\ Len(handed) <= VectorStoreCap
            /\ collect.docs = Collected(collect.papers,
                                         Min(collect.p, Len(collect.papers)))
            /\ handed = SubSeq(collect.docs, 1, Len(handed))
            /\ Len(handed) = Min(Len(collect.docs),
                                 Min(collect.max_docs_to_process, VectorStoreCap))

\* with the default limit two papers of 120 documents each are collected and
\* the first 200 documents are handed over
C34_Witness ==
    /\ collect.pc = "build"
    /\ collect.max_docs_to_process = DefaultMaxDocsToProcess
    /\ Len(collect.docs) = 240
    /\ Len(collect.handed[1]) = VectorStoreCap
    /\ collect.handed[1][VectorStoreCap] = <<2, 80>>

\* ------------------------------------------------ create_vector_store, end
\* C35: a build that has returned has returned an index, never None, also
\* when it was given no document and found no checkpoint.
C35_ReturnsAnIndex ==
    pc = "returned" => result # None

\* C36: a build of n documents makes at most ceil(n / batch_size) iterations
\* of its loop (batches started, and the iteration that raises the timeout),
\* and a build whose calls all return or raise ends: with an index returned,
\* with a timeout or with a failure.
C36_Terminates ==
    /\ [](LET n == Len(LimitDocs(Input(input), max_docs))
              iterations == hist.inserts + (IF TimedOutRaised THEN 1 ELSE 0)
          IN  iterations <= CeilDiv(n, batch_size))
    /\ (Running ~> pc \in {"returned", "raised", "crashed"})

\* a build of all the documents from nothing has returned after as many
\* iterations as there are batches
C36_Witness ==
    /\ pc = "returned"
    /\ ~hist.resumed
    /\ Len(truncated_docs) = NDocs
    /\ hist.inserts = CeilDiv(NDocs, batch_size)
    /\ processed_count = NDocs
    /\ result # None

\* ------------------------------------------------------- repeated builds
\* batches this invocation has committed
CommittedHere == hist.inserts - (IF error = "BatchError" THEN 1 ELSE 0)

\* the invocation that has failed or timed out had committed at least one
\* batch and its last completed save holds all it committed
FurtherBatch ==
    /\ CommittedHere >= 1
    /\ hist.saved_count > 0
    /\ hist.saved_count = processed_count

\* C37: when the same documents are built again and again to the same
\* destination and every invocation that fails or times out has committed
\* and checkpointed at least one batch more than it started with, then at
\* some moment a build has returned with processed_count equal to the number
\* of documents.
C37_EventuallyCompletes ==
    [](pc = "raised" => FurtherBatch)
        => <>(/\ pc = "returned"
              /\ processed_count = Len(truncated_docs)
              /\ Len(truncated_docs) = NDocs)

====
